---- MODULE Spec2Model ----
(***************************************************************************)
(* Plugin generator: the renderer's form submit handler, the               *)
(* 'generate-plugin' IPC handler and generatePlugin with its file-system   *)
(* effects.                                                                *)
(*                                                                         *)
(* Strings that the code inspects character by character (name, slug) are  *)
(* sequences of one-character strings; all other strings are opaque.       *)
(* Every `await` of generatePlugin is one step of a run, so runs that are  *)
(* in flight together interleave exactly at the awaits.                    *)
(***************************************************************************)
EXTENDS Integers, Sequences, FiniteSets, TLC

VARIABLES
    fs,         \* the directory tree: [dirs: set of directories, files: path -> contents]
    runs,       \* slot -> Idle or the generatePlugin invocation running there
    status,     \* the renderer's status area
    events,     \* number of external events so far: submissions, calls, faults
    succeeded   \* history: the options of the invocations that returned normally

vars == <<fs, runs, status, events, succeeded>>

(***************************************************************************)
(* Bounds                                                                  *)
(***************************************************************************)
\* how many external events a behaviour has: form submissions, direct calls
\* and file-system faults
MaxEvents == 2

Slots == 1..MaxEvents

(***************************************************************************)
(* Character-level string functions                                        *)
(***************************************************************************)
ToLowerChar(c) ==
    CASE c = "A" -> "a"
      [] c = "B" -> "b"
      [] c = "S" -> "s"
      [] OTHER -> c

\* the characters strings are made of
Chars == {"A", "b", "s", "!", " ", "-"}

\* the character class [a-z0-9] and its complement [^a-z0-9], over Chars and
\* the lower-case forms of Chars
LowerAlnum == {"a", "b", "s", "j", "o", "n"}
NotLowerAlnum == (Chars \cup {"a", "B", "S"}) \ LowerAlnum

\* the character class \s
Whitespace == {" "}

toLowerCase(s) == [i \in 1..Len(s) |-> ToLowerChar(s[i])]

RECURSIVE DropLeading(_, _)
DropLeading(s, class) ==
    IF s # <<>> /\ Head(s) \in class THEN DropLeading(Tail(s), class) ELSE s

RECURSIVE DropTrailing(_, _)
DropTrailing(s, class) ==
    IF s # <<>> /\ s[Len(s)] \in class
    THEN DropTrailing(SubSeq(s, 1, Len(s) - 1), class)
    ELSE s

\* String.prototype.trim
trim(s) == DropTrailing(DropLeading(s, Whitespace), Whitespace)

\* .replace(/[^a-z0-9]+/g, '-')
RECURSIVE ReplaceRuns(_)
ReplaceRuns(s) ==
    IF s = <<>> THEN <<>>
    ELSE IF Head(s) \in LowerAlnum
         THEN <<Head(s)>> \o ReplaceRuns(Tail(s))
         ELSE <<"-">> \o ReplaceRuns(DropLeading(Tail(s), NotLowerAlnum))

\* .replace(/^\-+|\-+$/g, '')
StripDashes(s) == DropTrailing(DropLeading(s, {"-"}), {"-"})

slugify(name) == StripDashes(ReplaceRuns(toLowerCase(name)))

(***************************************************************************)
(* Catalogs                                                                *)
(***************************************************************************)
AVAILABLE_LIBRARIES == {"cmb2", "cron", "widgets"}
AVAILABLE_SNIPPETS == {"settings"}

\* property names every object literal inherits from Object.prototype
ObjectPrototypeKeys == {"constructor"}

\* catalog[id] on an object literal: the own entry, an inherited property
\* (truthy, without a stubFile member), or undefined
Lookup(catalog, id) ==
    IF id \in catalog THEN "entry"
    ELSE IF id \in ObjectPrototypeKeys THEN "inherited"
    ELSE "undefined"

(***************************************************************************)
(* Paths                                                                   *)
(***************************************************************************)
ProcessCwd == <<"/", "c">>

\* path.join(outputDir, slug) followed by path.join(pluginDir, ...sub):
\* a directory is the output directory, the slug segment (none when the slug
\* is the empty string) and the segments below the plugin root
Dir(base, slug, sub) == [base |-> base, slug |-> slug, sub |-> sub]

\* a file: its directory and its name, the name being pre ++ slug ++ tail
\* of the template literal that builds it
File(dir, pre, slug, tail) == [dir |-> dir, pre |-> pre, slug |-> slug, tail |-> tail]

PluginDirOf(outputDir, slug) == Dir(outputDir, slug, <<>>)

\* d and the directories above it, up to the output directory
Ancestors(d) ==
    {Dir(d.base, d.slug, SubSeq(d.sub, 1, n)) : n \in 0..Len(d.sub)}
        \cup {Dir(d.base, <<>>, <<>>)}

\* d lies strictly below directory p
DirBelow(d, p) ==
    /\ d.base = p.base
    /\ d # p
    /\ \/ p.slug = <<>> /\ p.sub = <<>>
       \/ /\ d.slug = p.slug
          /\ Len(p.sub) <= Len(d.sub)
          /\ SubSeq(d.sub, 1, Len(p.sub)) = p.sub

FileBelow(f, p) == f.dir = p \/ DirBelow(f.dir, p)

(***************************************************************************)
(* Inputs                                                                  *)
(***************************************************************************)
Names == {<<>>, <<"!">>, <<"A", "b">>}
Slugs == {<<>>, <<"s">>}
OutputDirs == {<<>>, <<"/", "o">>}
BaseName == <<"A", "b">>
BaseDir == <<"/", "o">>

\* add-on selections: the dependency manifest, the libraries, the snippets
AddOn(withComposer, libraries, snippets) ==
    [withComposer |-> withComposer, libraries |-> libraries, snippets |-> snippets]
NoAddOns == AddOn(FALSE, <<>>, <<>>)
AddOns ==
    {NoAddOns,
     AddOn(TRUE, <<>>, <<>>),
     AddOn(FALSE, <<"cmb2">>, <<"settings">>),
     AddOn(TRUE, <<"bogus", "cron">>, <<"nope", "settings">>),
     AddOn(FALSE, <<"constructor", "cmb2">>, <<>>)}

\* a field the caller left out of the options (undefined). A template literal
\* renders it as the text undefined, which this value stands for as well
Undefined == <<"undefined">>

\* JavaScript truthiness of a string-valued option that may be missing
Truthy(s) == s # <<>> /\ s # Undefined

\* opts.settingsConfig; a key that is left out is Undefined, and a missing
\* settingsConfig is replaced by {} (line 361), the record of five missing keys
SettingsConfig(pageTitle, menuSlug, capability, parentMenu, format) ==
    [pageTitle |-> pageTitle, menuSlug |-> menuSlug, capability |-> capability,
     parentMenu |-> parentMenu, format |-> format]
NoConfig == SettingsConfig(Undefined, Undefined, Undefined, Undefined, Undefined)

\* an options record that gives the name, the slug, the output directory and
\* the add-ons and leaves every other field out
Options(name, slug, outputDir, a) ==
    [name |-> name, slug |-> slug, outputDir |-> outputDir,
     withComposer |-> a.withComposer, libraries |-> a.libraries,
     snippets |-> a.snippets,
     author |-> Undefined, authorUri |-> Undefined, pluginUri |-> Undefined,
     repo |-> Undefined, branch |-> Undefined, settingsConfig |-> NoConfig]

\* options a script calling window.electronAPI.generatePlugin itself may
\* pass: every name and slug, every output directory, every add-on selection,
\* each varied with the other fields at their base values
DirectOptions ==
    {Options(n, s, BaseDir, NoAddOns) : n \in Names, s \in Slugs}
        \cup {Options(BaseName, <<>>, d, NoAddOns) : d \in OutputDirs}
        \cup {Options(BaseName, <<>>, BaseDir, a) : a \in AddOns}

\* what the user typed and ticked in the form (raw field values)
FormNames == Names \cup {<<" ">>}
FormSlugs == Slugs
FormOutputDirs == OutputDirs \cup {<<" ">>}
FormBoxes == {[withComposer |-> FALSE, cmb2 |-> FALSE, cron |-> FALSE,
               widgets |-> FALSE, settings |-> FALSE],
              [withComposer |-> TRUE, cmb2 |-> TRUE, cron |-> FALSE,
               widgets |-> TRUE, settings |-> TRUE]}

\* the form with the given name, slug, output directory and boxes, its other
\* text fields left empty
Form(name, slug, outputDir, boxes) ==
    [name |-> name, slug |-> slug, outputDir |-> outputDir, boxes |-> boxes,
     author |-> <<>>, authorUri |-> <<>>, pluginUri |-> <<>>, repo |-> <<>>,
     branch |-> <<>>]

Main == <<"main">>

\* lines 30-54: the options record built from the form fields
FormData(form) ==
    [Options(trim(form.name), trim(form.slug), trim(form.outputDir),
             AddOn(form.boxes.withComposer,
                   (IF form.boxes.cmb2 THEN <<"cmb2">> ELSE <<>>)
                       \o (IF form.boxes.cron THEN <<"cron">> ELSE <<>>)
                       \o (IF form.boxes.widgets THEN <<"widgets">> ELSE <<>>),
                   IF form.boxes.settings THEN <<"settings">> ELSE <<>>))
     EXCEPT !.author = trim(form.author),
            !.authorUri = trim(form.authorUri),
            !.pluginUri = trim(form.pluginUri),
            !.repo = trim(form.repo),
            !.branch = IF trim(form.branch) # <<>> THEN trim(form.branch) ELSE Main]

\* every state of the form at a submission
Forms ==
    {Form(n, s, d, b) : n \in FormNames, s \in FormSlugs, d \in FormOutputDirs,
                        b \in FormBoxes}

\* the longest name followed when names are enumerated
MaxLen == 3

\* the strings over Chars of length at most n
RECURSIVE Texts(_)
Texts(n) ==
    IF n = 0 THEN {<<>>}
    ELSE LET shorter == Texts(n - 1)
         IN  shorter \cup {Append(t, c) : t \in {u \in shorter : Len(u) = n - 1},
                                          c \in Chars}

\* options whose slug is derived from the name: every name, the slug blank
NameOptions ==
    {Options(n, s, BaseDir, NoAddOns) : n \in Texts(MaxLen), s \in {<<>>, <<" ">>}}

\* options that supply the slug: every slug shorter than MaxLen
SlugOptions ==
    {Options(BaseName, s, BaseDir, NoAddOns) : s \in Texts(MaxLen - 1)}

\* values of a free-text option: missing, empty, blank, given
FieldTexts == {Undefined, <<>>, <<" ">>, <<"A", "b">>}

\* options that vary the ownership fields, the repository and the branch
OwnershipOptions ==
    {[Options(BaseName, <<>>, BaseDir, NoAddOns)
        EXCEPT !.author = a, !.authorUri = u, !.pluginUri = p, !.repo = r, !.branch = b] :
        a \in FieldTexts, u \in FieldTexts, p \in FieldTexts,
        r \in {Undefined, <<>>, <<"s">>}, b \in FieldTexts}

\* values of the settingsConfig keys: missing, empty, given (with a quote and
\* a backslash), and the formats
ConfigTexts == {Undefined, <<>>, <<"A", "'", "\\">>}
ConfigFormats == {Undefined, <<>>, <<"!">>, <<"A", "!", "s">>, <<"s">>}

\* options that select the settings snippet and vary its settingsConfig
SettingsOptions ==
    {[Options(BaseName, <<>>, BaseDir, AddOn(FALSE, <<>>, <<"settings">>))
        EXCEPT !.settingsConfig = SettingsConfig(t, m, c, p, f)] :
        t \in ConfigTexts, m \in ConfigTexts, c \in ConfigTexts, p \in ConfigTexts,
        f \in ConfigFormats}

RenderOptions == NameOptions \cup SlugOptions \cup OwnershipOptions \cup SettingsOptions

\* forms that vary the slug, the author, the repository and the branch typed
RenderForms ==
    {[Form(n, s, BaseDir, b) EXCEPT !.author = a, !.repo = r, !.branch = br] :
        n \in {BaseName, <<" ">>}, s \in {<<>>, <<"A", " ">>}, b \in FormBoxes,
        a \in {<<>>, <<" ">>, <<"A">>}, r \in {<<>>, <<"s">>},
        br \in {<<>>, <<" ">>, <<"b">>, <<" ", "b", " ">>}}

\* the option records that reach generatePlugin
Requests ==
    DirectOptions \cup RenderOptions
        \cup {FormData(form) : form \in Forms \cup RenderForms}

(***************************************************************************)
(* generatePlugin: the pure part                                           *)
(***************************************************************************)
\* opts.slug && opts.slug.trim() !== '' ? opts.slug : slugify(opts.name)
ResolveSlug(opts) ==
    IF opts.slug # <<>> /\ trim(opts.slug) # <<>> THEN opts.slug ELSE slugify(opts.name)

\* opts.outputDir || process.cwd()
ResolveOutputDir(opts) == IF opts.outputDir # <<>> THEN opts.outputDir ELSE ProcessCwd

PluginDir(opts) == PluginDirOf(ResolveOutputDir(opts), ResolveSlug(opts))

subdirs ==
    << <<"includes">>, <<"admin">>, <<"admin", "css">>, <<"admin", "js">>,
       <<"public">>, <<"public", "css">>, <<"public", "js">>, <<"languages">> >>

\* SubDir that joins the subdirectory to the output directory, not to the plugin root
SubDirOfOutputDir(opts, sub) == Dir(ResolveOutputDir(opts), <<>>, sub)

\* path.join(pluginDir, ...sub)
SubDir(opts, sub) == Dir(ResolveOutputDir(opts), ResolveSlug(opts), sub)

\* the directories generatePlugin creates, in order: the plugin root, then subdirs
MkdirList(opts) ==
    <<PluginDir(opts)>> \o [k \in 1..Len(subdirs) |-> SubDir(opts, subdirs[k])]

\* the add-on identifiers generateCoreClass emits a require_once line for:
\* every listed library, then every listed snippet, catalogued or not
ExtraRequires(opts) == opts.libraries \o opts.snippets

\* a || b on string-valued options
Or(value, fallback) == IF Truthy(value) THEN value ELSE fallback

defaultAuthor == <<"George Nicolaou">>
defaultAuthorUri == <<"https://www.georgenicolaou.me">>
pluginBaseUri == <<"https://www.georgenicolaou.me/plugins/">>

\* lines 253-268: the options with the ownership fields defaulted
normalizedOpts(opts) ==
    [opts EXCEPT
       !.author = IF Truthy(opts.author) /\ trim(opts.author) # <<>>
                  THEN opts.author ELSE defaultAuthor,
       !.authorUri = IF Truthy(opts.authorUri) /\ trim(opts.authorUri) # <<>>
                     THEN opts.authorUri ELSE defaultAuthorUri,
       !.pluginUri = IF Truthy(opts.pluginUri) /\ trim(opts.pluginUri) # <<>>
                     THEN opts.pluginUri
                     ELSE pluginBaseUri \o ResolveSlug(opts) \o <<"/">>]

\* generateMainPluginFile: the values interpolated into the header (plugin
\* URI, author, author URI, update URI) and, when a repository is given, into
\* the update-checker block (repository, slug, branch)
MainHeader(opts) ==
    LET repoUrl == Or(opts.repo, <<>>)
    IN  <<Or(opts.pluginUri, repoUrl), opts.author, opts.authorUri,
          Or(repoUrl, Or(opts.pluginUri, <<>>))>>
MainUpdateCode(opts, slug) ==
    LET repoUrl == Or(opts.repo, <<>>)
    IN  IF repoUrl # <<>> THEN <<repoUrl, slug, opts.branch>> ELSE <<>>

\* escapePhpString: '' for a falsy value, else every backslash and every
\* single quote preceded by a backslash
RECURSIVE EscapeChars(_)
EscapeChars(s) ==
    IF s = <<>> THEN <<>>
    ELSE (IF Head(s) \in {"\\", "'"} THEN <<"\\", Head(s)>> ELSE <<Head(s)>>)
         \o EscapeChars(Tail(s))
escapePhpString(value) == IF Truthy(value) THEN EscapeChars(value) ELSE <<>>

\* .replace(/[^a-z0-9]/g, '')
RECURSIVE KeepLowerAlnum(_)
KeepLowerAlnum(s) ==
    IF s = <<>> THEN <<>>
    ELSE (IF Head(s) \in LowerAlnum THEN <<Head(s)>> ELSE <<>>)
         \o KeepLowerAlnum(Tail(s))

Json == <<"j", "s", "o", "n">>

\* normalizedFormat without the final `|| 'json'`
normalizedFormatNoFallback(settingsConfig) ==
    KeepLowerAlnum(toLowerCase(Or(settingsConfig.format, Json)))

\* lines 120-121: formatInput and normalizedFormat
normalizedFormat(settingsConfig) ==
    Or(KeepLowerAlnum(toLowerCase(Or(settingsConfig.format, Json))), Json)

\* AVAILABLE_SNIPPETS.settings.stubFile: the values of $page_title,
\* $menu_slug, $capability, $parent_menu and $format in the stub
SettingsStub(slug, settingsConfig) ==
    <<escapePhpString(Or(settingsConfig.pageTitle, <<"Plugin Settings">>)),
      escapePhpString(Or(settingsConfig.menuSlug, slug \o <<"-settings">>)),
      escapePhpString(Or(settingsConfig.capability, <<"manage_options">>)),
      escapePhpString(Or(settingsConfig.parentMenu, <<"options-general.php">>)),
      escapePhpString(normalizedFormat(settingsConfig))>>

\* rendered contents, as the values interpolated into each template
Contents(kind, opts) ==
    LET text == [kind |-> kind, slug |-> ResolveSlug(opts), requires |-> <<>>,
                 header |-> <<>>, update |-> <<>>, settings |-> <<>>]
    IN  CASE kind \in {"css", "js"} -> [text EXCEPT !.slug = <<>>]
          [] kind = "core" -> [text EXCEPT !.requires = ExtraRequires(opts)]
          [] kind = "main" ->
                [text EXCEPT !.header = MainHeader(normalizedOpts(opts)),
                             !.update = MainUpdateCode(normalizedOpts(opts),
                                                       ResolveSlug(opts))]
          [] kind = "settings" ->
                [text EXCEPT !.settings = SettingsStub(ResolveSlug(opts),
                                                       opts.settingsConfig)]
          [] OTHER -> text

\* what a write that failed half way leaves behind
Truncated ==
    [kind |-> "truncated", slug |-> <<>>, requires |-> <<>>,
     header |-> <<>>, update |-> <<>>, settings |-> <<>>]

\* one writeFile call: the path path.join(pluginDir, ...sub, name) and the text
Write(opts, sub, name, kind) ==
    [file |-> File(SubDir(opts, sub), name[1], name[2], name[3]),
     contents |-> Contents(kind, opts)]

\* a file name built around the slug, and one that does not contain it
Slugged(opts, pre, tail) == <<pre, ResolveSlug(opts), tail>>
Literal(name) == <<name, <<>>, "">>

\* the writes of lines 328-344, in program order
FixedWrites(opts) ==
    << Write(opts, <<>>, Slugged(opts, "", ".php"), "main"),
       Write(opts, <<"includes">>, Slugged(opts, "class-", "-activator.php"), "activator"),
       Write(opts, <<"includes">>, Slugged(opts, "class-", "-deactivator.php"), "deactivator"),
       Write(opts, <<"includes">>, Slugged(opts, "class-", ".php"), "core"),
       Write(opts, <<"includes">>, Slugged(opts, "class-", "-loader.php"), "loader"),
       Write(opts, <<"admin">>, Slugged(opts, "class-", "-admin.php"), "admin"),
       Write(opts, <<"public">>, Slugged(opts, "class-", "-public.php"), "public"),
       Write(opts, <<>>, Literal("readme.txt"), "readme") >>
    \o (IF opts.withComposer
        THEN <<Write(opts, <<>>, Literal("composer.json"), "composer")>>
        ELSE <<>>)
    \o << Write(opts, <<"admin", "css">>, Slugged(opts, "", "-admin.css"), "css"),
          Write(opts, <<"admin", "js">>, Slugged(opts, "", "-admin.js"), "js"),
          Write(opts, <<"public", "css">>, Slugged(opts, "", "-public.css"), "css"),
          Write(opts, <<"public", "js">>, Slugged(opts, "", "-public.js"), "js") >>

\* `-${id}.php` for the identifiers of the two catalogs
StubTail(id) ==
    CASE id = "cmb2" -> "-cmb2.php"
      [] id = "cron" -> "-cron.php"
      [] id = "widgets" -> "-widgets.php"
      [] id = "settings" -> "-settings.php"

\* index of the first identifier whose lookup yields an inherited property
\* (info is truthy and info.stubFile is not a function), 0 if there is none
RECURSIVE FirstThrow(_, _, _)
FirstThrow(ids, catalog, k) ==
    IF k > Len(ids) THEN 0
    ELSE IF Lookup(catalog, ids[k]) = "inherited" THEN k
    ELSE FirstThrow(ids, catalog, k + 1)

\* the stub writes of one `for (const id of ids)` loop up to its first throw
RECURSIVE StubWrites(_, _, _, _)
StubWrites(opts, ids, catalog, k) ==
    IF k > Len(ids) \/ Lookup(catalog, ids[k]) = "inherited" THEN <<>>
    ELSE (IF Lookup(catalog, ids[k]) = "entry"
          THEN <<Write(opts, <<"includes">>,
                        Slugged(opts, "class-", StubTail(ids[k])), ids[k])>>
          ELSE <<>>)
         \o StubWrites(opts, ids, catalog, k + 1)

NoError == ""
ErrNotEmpty == "Directory already exists and is not empty."
ErrNotAFunction == "info.stubFile is not a function"
ErrAccess == "EACCES: permission denied"
ErrNoSpace == "ENOSPC: no space left on device"

\* Plan with the snippet loop placed before the library loop
PlanSnippetsFirst(opts) ==
    LET libThrows == FirstThrow(opts.libraries, AVAILABLE_LIBRARIES, 1) # 0
        snipThrows == FirstThrow(opts.snippets, AVAILABLE_SNIPPETS, 1) # 0
    IN  [writes |-> FixedWrites(opts)
                    \o StubWrites(opts, opts.snippets, AVAILABLE_SNIPPETS, 1)
                    \o (IF snipThrows THEN <<>>
                        ELSE StubWrites(opts, opts.libraries, AVAILABLE_LIBRARIES, 1)),
         error |-> IF libThrows \/ snipThrows THEN ErrNotAFunction ELSE NoError]

\* everything generatePlugin writes, in program order, and the exception (if
\* any) that ends it after the last of these writes
Plan(opts) ==
    LET libThrows == FirstThrow(opts.libraries, AVAILABLE_LIBRARIES, 1) # 0
        snipThrows == FirstThrow(opts.snippets, AVAILABLE_SNIPPETS, 1) # 0
    IN  [writes |-> FixedWrites(opts)
                    \o StubWrites(opts, opts.libraries, AVAILABLE_LIBRARIES, 1)
                    \o (IF libThrows THEN <<>>
                        ELSE StubWrites(opts, opts.snippets, AVAILABLE_SNIPPETS, 1)),
         error |-> IF libThrows \/ snipThrows THEN ErrNotAFunction ELSE NoError]

\* the pure part of generatePlugin, tabulated over the requests
PlanOf == [opts \in Requests |-> Plan(opts)]
PluginDirFor == [opts \in Requests |-> PluginDir(opts)]
MkdirListOf == [opts \in Requests |-> MkdirList(opts)]

(***************************************************************************)
(* The file system                                                         *)
(***************************************************************************)
EmptyTree == [dirs |-> {}, files |-> <<>>]

\* fs.readdir(d): the entries below d; ENOENT when d does not exist
Exists(tree, d) == d \in tree.dirs
Entries(tree, d) ==
    {e \in tree.dirs : DirBelow(e, d)} \cup {f \in DOMAIN tree.files : FileBelow(f, d)}

\* fs.mkdir(d, { recursive: true })
MkdirP(tree, d) == [tree EXCEPT !.dirs = @ \cup Ancestors(d)]

\* fs.writeFile(f, text, 'utf8') in an existing directory
PutFile(tree, f, text) ==
    [tree EXCEPT !.files = [g \in DOMAIN @ \cup {f} |-> IF g = f THEN text ELSE @[g]]]

\* writeFile(filePath, contents): ensureDir(path.dirname(filePath)), then the write
writeFile(tree, w) == PutFile(MkdirP(tree, w.file.dir), w.file, w.contents)

(***************************************************************************)
(* Runs of generatePlugin                                                  *)
(***************************************************************************)
NoOptions == Options(<<>>, <<>>, <<>>, NoAddOns)
NoResult == [ok |-> FALSE, error |-> "pending"]

\* a slot of the table of runs. Besides the position (pc, i) of the invocation,
\* a run records what it did and saw: made (ensureDir calls completed), log (the
\* files written, in order), fault (the file-system error injected into it),
\* nonEmptyAtCall and repeat (whether, when it was called, its plugin directory
\* was non-empty and whether the same options had already succeeded), and
\* listing (the files below its plugin directory when it ended)
Idle ==
    [pc |-> "idle", origin |-> "", opts |-> NoOptions, i |-> 0, made |-> 0,
     log |-> <<>>, result |-> NoResult, fault |-> NoError,
     nonEmptyAtCall |-> FALSE, repeat |-> FALSE, listing |-> {}]

\* HandlerResult with a catch block that reports success
HandlerResultSwallows(err) == [ok |-> TRUE]

\* the reply of ipcMain.handle('generate-plugin'): { ok: true } when
\* generatePlugin returned, { ok: false, error: err.message } when it threw
HandlerResult(err) ==
    IF err = NoError THEN [ok |-> TRUE] ELSE [ok |-> FALSE, error |-> err]

InFlight(r) == runs[r].pc \notin {"idle"}
Running(r) == runs[r].pc \in {"readdir", "mkdir", "write"}
FreeSlot == CHOOSE r \in Slots : ~InFlight(r) /\ \A q \in Slots : q < r => InFlight(q)

\* generatePlugin(opts) is entered: lines 249-268 run and fs.readdir is issued
Enter(origin, opts) ==
    /\ \E r \in Slots : ~InFlight(r)
    /\ runs' = [runs EXCEPT ![FreeSlot] =
                  [pc |-> "readdir", origin |-> origin, opts |-> opts, i |-> 1,
                   made |-> 0, log |-> <<>>, result |-> NoResult, fault |-> NoError,
                   nonEmptyAtCall |-> Exists(fs, PluginDirFor[opts])
                                      /\ Entries(fs, PluginDirFor[opts]) # {},
                   repeat |-> opts \in succeeded, listing |-> {}]]

\* the run ends: generatePlugin returned or threw err, and the handler replies
Finish(run, tree, err) ==
    [run EXCEPT !.pc = "done", !.result = HandlerResult(err),
                !.listing = {f \in DOMAIN tree.files : FileBelow(f, PluginDirFor[run.opts])}]

\* Readdir with the plugin root created before it is listed
ReaddirAfterEnsureDir(r) ==
    /\ runs[r].pc = "readdir"
    /\ LET dir == PluginDirFor[runs[r].opts]
           tree == MkdirP(fs, dir)
       IN  /\ fs' = tree
           /\ IF Entries(tree, dir) # {}
              THEN runs' = [runs EXCEPT ![r] = Finish([@ EXCEPT !.made = 1], tree, ErrNotEmpty)]
              ELSE runs' = [runs EXCEPT ![r].pc = "mkdir", ![r].i = 2, ![r].made = 1]
    /\ UNCHANGED <<status, events, succeeded>>

\* Readdir with a catch block that swallows every error, not only ENOENT
ReaddirSwallowsAll(r) ==
    /\ runs[r].pc = "readdir"
    /\ runs' = [runs EXCEPT ![r].pc = "mkdir", ![r].i = 1]
    /\ UNCHANGED <<fs, status, events, succeeded>>

\* lines 271-279: the listing of the plugin directory comes back
Readdir(r) ==
    /\ runs[r].pc = "readdir"
    /\ LET dir == PluginDirFor[runs[r].opts]
       IN  IF Exists(fs, dir) /\ Entries(fs, dir) # {}
           THEN runs' = [runs EXCEPT ![r] = Finish(@, fs, ErrNotEmpty)]
           ELSE runs' = [runs EXCEPT ![r].pc = "mkdir", ![r].i = 1]
    /\ UNCHANGED <<fs, status, events, succeeded>>

\* lines 282-295: one ensureDir of the plugin root or of a subdirectory completes
Mkdir(r) ==
    /\ runs[r].pc = "mkdir"
    /\ LET list == MkdirListOf[runs[r].opts]
           k == runs[r].i
       IN  /\ fs' = MkdirP(fs, list[k])
           /\ runs' = [runs EXCEPT ![r].made = @ + 1,
                                   ![r].i = IF k = Len(list) THEN 1 ELSE k + 1,
                                   ![r].pc = IF k = Len(list) THEN "write" ELSE "mkdir"]
    /\ UNCHANGED <<status, events, succeeded>>

\* an ensureDir rejects: the error propagates out of generatePlugin
MkdirFails(r) ==
    /\ runs[r].pc = "mkdir"
    /\ events < MaxEvents
    /\ events' = events + 1
    /\ runs' = [runs EXCEPT ![r] = Finish([@ EXCEPT !.fault = ErrAccess], fs, ErrAccess)]
    /\ UNCHANGED <<fs, status, succeeded>>

\* lines 328-367: one writeFile completes; after the last one the loops end,
\* normally or with the exception of the add-on lookup
WriteFile(r) ==
    /\ runs[r].pc = "write"
    /\ LET plan == PlanOf[runs[r].opts]
           k == runs[r].i
           tree == writeFile(fs, plan.writes[k])
           run == [runs[r] EXCEPT !.log = Append(@, plan.writes[k].file), !.i = k + 1]
       IN  /\ fs' = tree
           /\ IF k < Len(plan.writes)
              THEN /\ runs' = [runs EXCEPT ![r] = run]
                   /\ UNCHANGED succeeded
              ELSE /\ runs' = [runs EXCEPT ![r] = Finish(run, tree, plan.error)]
                   /\ succeeded' = IF plan.error = NoError
                                   THEN succeeded \cup {run.opts} ELSE succeeded
    /\ UNCHANGED <<status, events>>

\* a writeFile rejects: with EACCES nothing is written, with ENOSPC the file is
\* left truncated; the error propagates out of generatePlugin
WriteFileFails(r) ==
    /\ runs[r].pc = "write"
    /\ events < MaxEvents
    /\ events' = events + 1
    /\ LET w == PlanOf[runs[r].opts].writes[runs[r].i]
       IN  \E err \in {ErrAccess, ErrNoSpace} :
             LET tree == IF err = ErrNoSpace
                         THEN PutFile(MkdirP(fs, w.file.dir), w.file, Truncated)
                         ELSE fs
             IN  /\ fs' = tree
                 /\ runs' = [runs EXCEPT ![r] = Finish([@ EXCEPT !.fault = err], tree, err)]
    /\ UNCHANGED <<status, succeeded>>

(***************************************************************************)
(* The renderer                                                            *)
(***************************************************************************)
Status(variant, text, dir, leaf) ==
    [variant |-> variant, text |-> text, dir |-> dir, leaf |-> leaf]

\* setStatus(): the status area is hidden
Hidden == Status("", "", <<>>, <<>>)

MsgName == "Please enter a plugin name."
MsgOutputDir == "Please choose an output directory."
MsgGenerating == "Generating plugin..."
MsgSuccess == "Plugin generated successfully in "

\* Validate without the check of the name
ValidateOutputDirOnly(data) ==
    IF data.outputDir = <<>> THEN MsgOutputDir ELSE ""

\* lines 57-64: the message of the validation that rejects data, "" if none does
Validate(data) ==
    IF data.name = <<>> THEN MsgName
    ELSE IF data.outputDir = <<>> THEN MsgOutputDir
    ELSE ""

\* the form's submit handler up to its await
Submit(form) ==
    LET data == FormData(form)
    IN  /\ events < MaxEvents
        /\ events' = events + 1
        /\ IF Validate(data) # ""
           THEN /\ status' = Status("error", Validate(data), <<>>, <<>>)
                /\ UNCHANGED <<fs, runs, succeeded>>
           ELSE /\ status' = Status("neutral", MsgGenerating, <<>>, <<>>)
                /\ Enter("ui", data)
                /\ UNCHANGED <<fs, succeeded>>

\* a script of the page calls window.electronAPI.generatePlugin(opts) itself
Call(opts) ==
    /\ events < MaxEvents
    /\ events' = events + 1
    /\ Enter("direct", opts)
    /\ UNCHANGED <<fs, status, succeeded>>

\* lines 68-72: the status shown when the reply arrives
ReplyStatus(data, result) ==
    IF result.ok
    THEN Status("success", MsgSuccess, data.outputDir,
                IF data.slug # <<>> THEN data.slug ELSE data.name)
    ELSE Status("error", result.error, <<>>, <<>>)

\* the reply reaches the caller: the submit handler resumes after its await
Return(r) ==
    /\ runs[r].pc = "done"
    /\ status' = IF runs[r].origin = "ui"
                 THEN ReplyStatus(runs[r].opts, runs[r].result)
                 ELSE status
    /\ runs' = [runs EXCEPT ![r] = Idle]
    /\ UNCHANGED <<fs, events, succeeded>>

(***************************************************************************)
(* Specification                                                           *)
(***************************************************************************)
Init ==
    /\ fs = EmptyTree
    /\ runs = [r \in Slots |-> Idle]
    /\ status = Hidden
    /\ events = 0
    /\ succeeded = {}

Next ==
    \/ \E form \in Forms : Submit(form)
    \/ \E opts \in DirectOptions : Call(opts)
    \/ \E r \in Slots :
         \/ Readdir(r)
         \/ Mkdir(r)
         \/ MkdirFails(r)
         \/ WriteFile(r)
         \/ WriteFileFails(r)
         \/ Return(r)

Spec == Init /\ [][Next]_vars

\* the application alone: every request comes from the form
NextUI ==
    \/ \E form \in Forms : Submit(form)
    \/ \E r \in Slots :
         \/ Readdir(r)
         \/ Mkdir(r)
         \/ MkdirFails(r)
         \/ WriteFile(r)
         \/ WriteFileFails(r)
         \/ Return(r)

SpecUI == Init /\ [][NextUI]_vars

\* one request, from a script or from the form, followed to its reply
NextRender ==
    \/ \E opts \in RenderOptions : events = 0 /\ Call(opts)
    \/ \E form \in RenderForms : events = 0 /\ Submit(form)
    \/ \E r \in Slots :
         \/ Readdir(r)
         \/ Mkdir(r)
         \/ WriteFile(r)
         \/ Return(r)

SpecRender == Init /\ [][NextRender]_vars

(***************************************************************************)
(* Properties                                                              *)
(***************************************************************************)
ConflictReply == [ok |-> FALSE, error |-> ErrNotEmpty]

\* the run has created no directory and written no file, and is not about to
Untouched(run) ==
    /\ run.made = 0
    /\ run.log = <<>>
    /\ run.pc \in {"readdir", "done"}

\* C1: a generate call made while outputDirectory/slug exists and is non-empty
\* fails with the 'destination not empty' error, having created no directory
\* and written no file.
C1_ConflictBeforeAnyWrite ==
    \A r \in Slots :
        runs[r].nonEmptyAtCall =>
            /\ Untouched(runs[r])
            /\ runs[r].pc = "done" => runs[r].result = ConflictReply

C1_Witness ==
    \E r \in Slots :
        /\ runs[r].nonEmptyAtCall
        /\ runs[r].pc = "done"
        /\ Entries(fs, PluginDir(runs[r].opts)) # {}

\* C2: a generate call made with options on which an earlier call has already
\* completed successfully fails with the 'destination not empty' error and
\* performs no directory creation and no write.
C2_SecondCallWritesNothing ==
    \A r \in Slots :
        runs[r].repeat =>
            /\ runs[r].pc = "done" => runs[r].result = ConflictReply
            /\ Untouched(runs[r])

C2_Witness ==
    \E r \in Slots :
        /\ runs[r].repeat
        /\ runs[r].pc = "done"
        /\ runs[r].opts \in succeeded

ValidationMessages == {MsgName, MsgOutputDir}

\* the run was refused as invalid: nothing created, nothing written, and the
\* reply (once there) is a validation error
Refused(run) ==
    /\ run.made = 0
    /\ run.log = <<>>
    /\ run.pc = "done" => ~run.result.ok /\ run.result.error \in ValidationMessages

\* C3: with no slug supplied and a name of only non-alphanumeric characters
\* (slugify(name) is empty), generate fails with a validation error and
\* creates no directory and writes no file.
C3_EmptySlugRefused ==
    \A r \in Slots :
        ( /\ InFlight(r)
          /\ trim(runs[r].opts.slug) = <<>>
          /\ runs[r].opts.name # <<>>
          /\ slugify(runs[r].opts.name) = <<>> ) => Refused(runs[r])

\* C4, as claimed: generate fails with a validation error, before any
\* file-system mutation, whenever the name or the output directory is empty.
C4_GenerateValidates ==
    \A r \in Slots :
        ( /\ InFlight(r)
          /\ runs[r].opts.name = <<>> \/ runs[r].opts.outputDir = <<>> ) => Refused(runs[r])

\* C4, amended: a form submission whose trimmed name or trimmed output
\* directory is empty ends with a validation error in the status area, sends
\* no generate request and leaves the file system as it was; no request that
\* comes from the form has an empty name or an empty output directory.
C4_FormValidates ==
    /\ [][\A form \in Forms :
            ( /\ trim(form.name) = <<>> \/ trim(form.outputDir) = <<>>
              /\ Submit(form) ) =>
                /\ status'.variant = "error"
                /\ status'.text \in ValidationMessages
                /\ UNCHANGED <<fs, runs, succeeded>>]_vars
    /\ [](\A r \in Slots :
            runs[r].origin = "ui" =>
                runs[r].opts.name # <<>> /\ runs[r].opts.outputDir # <<>>)

C4_Witness ==
    /\ status.variant = "error"
    /\ status.text = MsgName
    /\ events > 0
    /\ fs = EmptyTree

\* C5, as claimed: a successful generate returns ok = true together with
\* pluginPath, the output directory joined with the resolved slug.
C5_ResultCarriesPluginPath ==
    \A r \in Slots :
        (runs[r].pc = "done" /\ runs[r].result.ok) =>
            /\ "pluginPath" \in DOMAIN runs[r].result
            /\ runs[r].result.pluginPath
                   = PluginDirOf(ResolveOutputDir(runs[r].opts), ResolveSlug(runs[r].opts))

\* the files of a sequence
Range(seq) == {seq[k] : k \in 1..Len(seq)}

\* C5, amended: a successful generate returns exactly { ok: true }, without a
\* pluginPath; every file it wrote lies in the output directory (the working
\* directory when none is given) joined with the resolved slug.
C5_OkReplyAndWrittenDirectory ==
    \A r \in Slots :
        (runs[r].pc = "done" /\ runs[r].result.ok) =>
            /\ DOMAIN runs[r].result = {"ok"}
            /\ runs[r].log # <<>>
            /\ \A f \in Range(runs[r].log) :
                 /\ f \in DOMAIN fs.files
                 /\ f.dir.base = (IF runs[r].opts.outputDir # <<>>
                                  THEN runs[r].opts.outputDir ELSE ProcessCwd)
                 /\ f.dir.slug = ResolveSlug(runs[r].opts)

C5_Witness ==
    \E r \in Slots :
        /\ runs[r].pc = "done"
        /\ runs[r].result.ok
        /\ runs[r].opts.slug = <<>>
        /\ ResolveSlug(runs[r].opts) # <<>>

\* The files of the layout, named as the specification names them.
Root(opts) == PluginDirOf(ResolveOutputDir(opts), ResolveSlug(opts))
Under(opts, sub) == Dir(ResolveOutputDir(opts), ResolveSlug(opts), sub)
Named(opts, sub, pre, tail) == File(Under(opts, sub), pre, ResolveSlug(opts), tail)

EntryFile(opts) == Named(opts, <<>>, "", ".php")
ActivatorFile(opts) == Named(opts, <<"includes">>, "class-", "-activator.php")
DeactivatorFile(opts) == Named(opts, <<"includes">>, "class-", "-deactivator.php")
CoreClassFile(opts) == Named(opts, <<"includes">>, "class-", ".php")
LoaderFile(opts) == Named(opts, <<"includes">>, "class-", "-loader.php")
AdminFile(opts) == Named(opts, <<"admin">>, "class-", "-admin.php")
PublicFile(opts) == Named(opts, <<"public">>, "class-", "-public.php")
ReadmeFile(opts) == File(Root(opts), "readme.txt", <<>>, "")
ManifestFile(opts) == File(Root(opts), "composer.json", <<>>, "")
AdminCssFile(opts) == Named(opts, <<"admin", "css">>, "", "-admin.css")
AdminJsFile(opts) == Named(opts, <<"admin", "js">>, "", "-admin.js")
PublicCssFile(opts) == Named(opts, <<"public", "css">>, "", "-public.css")
PublicJsFile(opts) == Named(opts, <<"public", "js">>, "", "-public.js")
StubFile(opts, id) == Named(opts, <<"includes">>, "class-", StubTail(id))

InLibraryCatalog(id) == id \in AVAILABLE_LIBRARIES
InSnippetCatalog(id) == id \in AVAILABLE_SNIPPETS
CataloguedLibraries(opts) == SelectSeq(opts.libraries, InLibraryCatalog)
CataloguedSnippets(opts) == SelectSeq(opts.snippets, InSnippetCatalog)
StubFiles(opts, ids) == [k \in 1..Len(ids) |-> StubFile(opts, ids[k])]

\* the write order of the specification
ExpectedOrder(opts) ==
    <<EntryFile(opts), ActivatorFile(opts), DeactivatorFile(opts), CoreClassFile(opts),
      LoaderFile(opts), AdminFile(opts), PublicFile(opts), ReadmeFile(opts)>>
    \o (IF opts.withComposer THEN <<ManifestFile(opts)>> ELSE <<>>)
    \o <<AdminCssFile(opts), AdminJsFile(opts), PublicCssFile(opts), PublicJsFile(opts)>>
    \o StubFiles(opts, CataloguedLibraries(opts))
    \o StubFiles(opts, CataloguedSnippets(opts))

\* the file set of the specification's layout
ExpectedFiles(opts) ==
    {EntryFile(opts), ReadmeFile(opts), CoreClassFile(opts), LoaderFile(opts),
     ActivatorFile(opts), DeactivatorFile(opts), AdminFile(opts), PublicFile(opts)}
    \cup {AdminCssFile(opts), AdminJsFile(opts), PublicCssFile(opts), PublicJsFile(opts)}
    \cup (IF opts.withComposer THEN {ManifestFile(opts)} ELSE {})
    \cup Range(StubFiles(opts, CataloguedLibraries(opts)))
    \cup Range(StubFiles(opts, CataloguedSnippets(opts)))

FixedSubdirectories(opts) == {Under(opts, subdirs[k]) : k \in 1..Len(subdirs)}

IsPrefix(a, b) == Len(a) <= Len(b) /\ SubSeq(b, 1, Len(a)) = a

\* C6: when a generate call ends successfully, the files below
\* outputDirectory/slug are exactly those of the layout: the 8 fixed files, the
\* 4 empty stubs, composer.json iff requested, one stub per catalogued add-on.
C6_ExactFileSet ==
    \A r \in Slots :
        (runs[r].pc = "done" /\ runs[r].result.ok) =>
            runs[r].listing = ExpectedFiles(runs[r].opts)

\* C7: in every run the files are written one after the other in the fixed
\* order (entry file, activator, deactivator, core class, loader, admin,
\* public, readme, manifest if requested, the four css/js stubs, library
\* stubs in list order, snippet stubs in list order), and no file is written
\* before the plugin root and every fixed subdirectory have been created.
C7_WriteOrder ==
    \A r \in Slots :
        InFlight(r) =>
            /\ IsPrefix(runs[r].log, ExpectedOrder(runs[r].opts))
            /\ (runs[r].log # <<>> \/ runs[r].pc = "write") =>
                   /\ runs[r].made = Len(subdirs) + 1
                   /\ FixedSubdirectories(runs[r].opts) \cup {Root(runs[r].opts)}
                          \subseteq fs.dirs

C7_Witness ==
    \E r \in Slots :
        /\ runs[r].pc = "done"
        /\ runs[r].result.ok
        /\ runs[r].opts.withComposer
        /\ CataloguedLibraries(runs[r].opts) # <<>>
        /\ CataloguedSnippets(runs[r].opts) # <<>>
        /\ runs[r].log = ExpectedOrder(runs[r].opts)

\* C8: when a directory creation or a file write of a run fails, the run ends
\* there: the caller gets ok = false with that error's message, the files
\* written so far are a prefix of the write order and are all still on disk,
\* and so are the directories created so far.
C8_FailureAborts ==
    \A r \in Slots :
        runs[r].fault # NoError =>
            /\ runs[r].pc = "done"
            /\ runs[r].result = [ok |-> FALSE, error |-> runs[r].fault]
            /\ IsPrefix(runs[r].log, ExpectedOrder(runs[r].opts))
            /\ Range(runs[r].log) \subseteq DOMAIN fs.files
            /\ Range(runs[r].log) \subseteq runs[r].listing
            /\ \A k \in 1..runs[r].made : MkdirList(runs[r].opts)[k] \in fs.dirs

C8_Witness ==
    \E r \in Slots :
        /\ runs[r].fault = ErrNoSpace
        /\ Len(runs[r].log) >= 3
        /\ runs[r].pc = "done"

\* the add-on identifiers of the options that are in neither catalog list
Uncatalogued(opts) ==
    {opts.libraries[k] : k \in {j \in 1..Len(opts.libraries) :
                                  ~InLibraryCatalog(opts.libraries[j])}}
    \cup {opts.snippets[k] : k \in {j \in 1..Len(opts.snippets) :
                                      ~InSnippetCatalog(opts.snippets[j])}}

\* C9: an identifier that is in no catalog is ignored: a run that meets no
\* destination conflict and no file-system fault succeeds, and it writes the
\* stub of every catalogued identifier of its lists and no other add-on file.
C9_UnknownIdentifiersIgnored ==
    \A r \in Slots :
        ( /\ runs[r].pc = "done"
          /\ Uncatalogued(runs[r].opts) # {}
          /\ runs[r].fault = NoError
          /\ runs[r].result # ConflictReply ) =>
            /\ runs[r].result.ok
            /\ Range(runs[r].log) = ExpectedFiles(runs[r].opts)

\* C10: at most one generate request of the form is outstanding at any time.
C10_OneRequestAtATime ==
    Cardinality({r \in Slots : InFlight(r) /\ runs[r].origin = "ui"}) <= 1

\* a slug of lowercase letters, digits and hyphens, no hyphen at either end
WellFormedSlug(s) ==
    /\ \A i \in 1..Len(s) : s[i] \in LowerAlnum \cup {"-"}
    /\ s # <<>> => s[1] # "-" /\ s[Len(s)] # "-"

\* C11: the slug a run uses for its plugin root and in the names of the
\* files it writes consists of lowercase letters, digits and hyphens only and
\* neither starts nor ends with a hyphen.
C11_SlugWellFormed ==
    /\ \A d \in fs.dirs : WellFormedSlug(d.slug)
    /\ \A f \in DOMAIN fs.files : WellFormedSlug(f.slug)
    /\ \A r \in Slots :
          \A k \in 1..Len(runs[r].log) : WellFormedSlug(runs[r].log[k].slug)

\* the part of C11 that is about slugify: a slug derived from the name is
\* well formed
SlugifyWellFormed ==
    \A r \in Slots :
        ( InFlight(r) /\ trim(runs[r].opts.slug) = <<>> ) =>
            WellFormedSlug(PluginDir(runs[r].opts).slug)

\* a settingsConfig key that is absent or empty
Absent(value) == value \in {Undefined, <<>>}

\* the settings stubs on disk that a run has written: the run and the file
SettingsStubsWritten ==
    {<<r, f>> \in Slots \X DOMAIN fs.files :
        /\ f \in Range(runs[r].log)
        /\ f.tail = "-settings.php"}

\* C12: in every settings stub written, each of pageTitle, menuSlug,
\* capability and parentMenu whose settingsConfig key is absent or empty has
\* its fixed default ('Plugin Settings', '<slug>-settings', 'manage_options',
\* 'options-general.php'); the format is a non-empty string of lowercase
\* alphanumerics, and it is 'json' when the key is absent or empty or holds
\* no alphanumeric character at all.
C12_SettingsDefaults ==
    \A w \in SettingsStubsWritten :
        LET cfg == runs[w[1]].opts.settingsConfig
            slug == ResolveSlug(runs[w[1]].opts)
            stub == fs.files[w[2]].settings
        IN  /\ Len(stub) = 5
            /\ Absent(cfg.pageTitle) => stub[1] = <<"Plugin Settings">>
            /\ Absent(cfg.menuSlug) => stub[2] = slug \o <<"-settings">>
            /\ Absent(cfg.capability) => stub[3] = <<"manage_options">>
            /\ Absent(cfg.parentMenu) => stub[4] = <<"options-general.php">>
            /\ stub[5] # <<>>
            /\ \A i \in 1..Len(stub[5]) : stub[5][i] \in LowerAlnum
            /\ ( \/ Absent(cfg.format)
                 \/ \A i \in 1..Len(cfg.format) :
                       ToLowerChar(cfg.format[i]) \notin LowerAlnum )
                  => stub[5] = Json
            /\ ( /\ ~Absent(cfg.format)
                 /\ \A i \in 1..Len(cfg.format) : cfg.format[i] \in LowerAlnum )
                  => stub[5] = cfg.format

C12_Witness ==
    \E w \in SettingsStubsWritten :
        /\ runs[w[1]].pc = "done"
        /\ runs[w[1]].opts.settingsConfig.pageTitle = Undefined
        /\ runs[w[1]].opts.settingsConfig.menuSlug = <<>>
        /\ runs[w[1]].opts.settingsConfig.format = <<"!">>
        /\ fs.files[w[2]].settings[5] = Json

\* a free-text option that is missing, empty or whitespace only
Blank(value) == value = Undefined \/ trim(value) = <<>>

\* the entry files on disk that a run has written: the run and the file
EntryFilesWritten ==
    {<<r, f>> \in Slots \X DOMAIN fs.files :
        /\ f \in Range(runs[r].log)
        /\ fs.files[f].kind = "main"}

\* the ownership part of C13: in every entry file written, a blank author or
\* author URI is the fixed identity and a blank plugin URI is the fixed base
\* URI followed by the slug and a slash
OwnershipDefaults ==
    \A w \in EntryFilesWritten :
        LET opts == runs[w[1]].opts
            header == fs.files[w[2]].header
        IN  /\ Blank(opts.pluginUri) =>
                  header[1] = pluginBaseUri \o ResolveSlug(opts) \o <<"/">>
            /\ Blank(opts.author) => header[2] = defaultAuthor
            /\ Blank(opts.authorUri) => header[3] = defaultAuthorUri

\* the branch part of C13: in every entry file written for options that give
\* a repository, the update-checker block names the branch 'main' when the
\* branch is blank or missing
BranchDefault ==
    \A w \in EntryFilesWritten :
        LET opts == runs[w[1]].opts
            update == fs.files[w[2]].update
        IN  Truthy(opts.repo) =>
                /\ Len(update) = 3
                /\ Blank(opts.branch) => update[3] = Main

\* C13: blank ownership fields are defaulted before rendering, and a blank or
\* missing branch is rendered as 'main' in the update-checker block of the
\* entry file whenever a repository is given.
C13_DefaultsResolved == OwnershipDefaults /\ BranchDefault

\* the add-on identifiers the core class of a run has an include line for
IncludedAddOns(run) == Range(Contents("core", run.opts).requires)

\* the add-on identifiers whose stub file includes/class-<slug>-<id>.php the
\* run has written
StubbedAddOns(run) ==
    {id \in AVAILABLE_LIBRARIES \cup AVAILABLE_SNIPPETS :
        StubFile(run.opts, id) \in Range(run.log)}

\* C14: after a successful run, the add-on include lines of the core class
\* it generated name exactly the add-on stub files it wrote under includes/.
C14_IncludesMatchStubs ==
    \A r \in Slots :
        ( runs[r].pc = "done" /\ runs[r].result.ok ) =>
            IncludedAddOns(runs[r]) = StubbedAddOns(runs[r])

\* C15: whenever the reply to a form submission makes the status area show
\* success, the path named in the status is the plugin directory the run
\* created and wrote into: the output directory joined with the resolved slug.
C15_StatusNamesPluginDir ==
    [][\A r \in Slots :
          ( /\ Return(r)
            /\ runs[r].origin = "ui"
            /\ runs[r].result.ok ) =>
              /\ status'.variant = "success"
              /\ Dir(status'.dir, status'.leaf, <<>>) = PluginDir(runs[r].opts)]_vars

====
